---------------------------- MODULE Spec2Model ----------------------------
(***************************************************************************)
(* Test-support utilities of the repository: the memoizing user factories  *)
(* (testing_tools/fixtures.py), the client wrapper                         *)
(* (testing_tools/async_client.py), the response checker                   *)
(* (testing_tools/response_checker.py), SharedData and the database        *)
(* fixtures (testing_tools/fixtures.py), and the example ApiException and  *)
(* PaginationDTO (your_app_utils).                                         *)
(*                                                                         *)
(* Python values are tagged records [t |-> type, v |-> payload]; a dict is *)
(* a function from its keys; an object is the index of its record in the   *)
(* sequence that models the heap (its identity).                           *)
(***************************************************************************)
EXTENDS Integers, Sequences, FiniteSets, TLC

VARIABLES
    \* ---- user factories
    clients,      \* heap of AsyncClientBoB objects, identity = index
    users,        \* factory instance -> its _users dict (name -> client id)
    userRecords,  \* rows of the application's user table
    fret,         \* outcome of the latest get_user call
    firstRet,     \* history: the first client each (factory, name) returned
    attempts,     \* history: get_user calls made per (factory, name)
    \* ---- response checker
    resp,         \* the response under check
    rc,           \* the ResponseChecker built over resp
    exc,          \* the expected ApiException
    out,          \* outcome of the latest checker operation
    \* ---- SharedData
    shared,       \* the SharedData dict
    writes,       \* history: the assignments made, in order
    sdOut,        \* outcome of the latest SharedData.get
    \* ---- client wrapper
    bob,          \* one AsyncClientBoB
    exchanges,    \* requests the underlying AsyncClient has been handed
    calls,        \* verb calls made on bob
    checkers,     \* heap of ResponseChecker objects the verbs returned
    installed,    \* history: header values installed (constructor, setters)
    \* ---- database fixtures
    dbLog,        \* calls received by the database harness, in order
    blocker,      \* django_db_blocker: stack of saved states, top = current
    dbSettings,   \* settings.DATABASES["default"]
    fixtures,     \* pytest's fixture cache: fixture -> "unset"/"active"/"done"
    test,         \* the test function the runner is at
    session       \* the runner's position in the session

facVars == <<clients, users, userRecords, fret, firstRet, attempts>>
rcVars  == <<resp, rc, exc, out>>
sdVars  == <<shared, writes, sdOut>>
clVars  == <<bob, exchanges, calls, checkers, installed>>
dbVars  == <<dbLog, blocker, dbSettings, fixtures, test, session>>
vars    == <<facVars, rcVars, sdVars, clVars, dbVars>>

-----------------------------------------------------------------------------
(* Python values *)

None       == [t |-> "none", v |-> 0]
PyStr(s)   == [t |-> "str", v |-> s]
PyInt(i)   == [t |-> "int", v |-> i]
PyBool(b)  == [t |-> "bool", v |-> b]
PyList(l)  == [t |-> "list", v |-> l]
PyDict(d)  == [t |-> "dict", v |-> d]
PyTuple(s) == [t |-> "tuple", v |-> s]

EmptyDict  == [k \in {} |-> None]

\* bool(value), as `assert value` and `x if x else y` evaluate it
Truthy(val) ==
    CASE val.t = "none" -> FALSE
      [] val.t = "bool" -> val.v
      [] val.t = "int"  -> val.v # 0
      [] val.t = "str"  -> val.v # ""
      [] val.t = "list" -> Len(val.v) > 0
      [] val.t = "dict" -> DOMAIN val.v # {}

\* dict.get(key, None)
DictGet(d, key) == IF key \in DOMAIN d THEN d[key] ELSE None

\* d[key] = value
DictSet(d, key, value) ==
    [k \in DOMAIN d \cup {key} |-> IF k = key THEN value ELSE d[k]]

\* http.cookies.SimpleCookie(mapping): one Morsel per key
SimpleCookie(mapping) ==
    [k \in DOMAIN mapping |-> [key |-> k, value |-> mapping[k]]]

-----------------------------------------------------------------------------
(* AsyncClientBoB: construction and the two setters *)

\* django.test.AsyncClient(): a client with an empty cookie jar
AsyncClient == [cookies |-> SimpleCookie(EmptyDict)]

\* AsyncClientBoB.__init__
AsyncClientBoB(headers, email, uid, password, organization_id) ==
    [email             |-> email,
     uid               |-> uid,
     password          |-> password,
     organization_id   |-> organization_id,
     organization_name |-> None,
     _headers          |-> headers,
     _client           |-> AsyncClient]

\* the cookies setter: converts the plain mapping to a SimpleCookie
SetCookies(client, cookies) ==
    [client EXCEPT !._client.cookies = SimpleCookie(cookies)]

\* the cookies getter
Cookies(client) == client._client.cookies

\* the headers setter
SetHeaders(client, headers) == [client EXCEPT !._headers = headers]

\* the headers getter
Headers(client) == client._headers

-----------------------------------------------------------------------------
(* User factories *)

\* bound on the get_user calls of one session
MaxCalls == 5

\* the logical names the fixtures ask for
Names == {"one", "store_test", "subscription_test"}

\* factory instances: the two session fixtures and one built ad hoc
Factories ==
    {"anonymous_user_factory", "authorized_user_factory", "adhoc_factory"}

FactoryClass(f) ==
    IF f = "authorized_user_factory"
    THEN "AuthorizedUserFactory" ELSE "AnonymousUserFactory"

generate_email(name) == name \o "@test.businessorientedprogramming.com"

TestPassword == "Password123#@!"

\* AnonymousUserFactory.__init__: each instance gets its own empty dict
NewUsers == [f \in Factories |-> [n \in {} |-> 0]]

\* AnonymousUserFactory._create
AnonymousCreateMutantNoUid(name) ==
    LET client == AsyncClientBoB(EmptyDict, None, None, None, None)
    IN  [raised |-> "none",
         client |-> SetCookies(client, [k \in {"ANONYMOUS_USER_EXTERNAL_ID"} |-> name])]

AnonymousCreate(name) ==
    LET client == AsyncClientBoB(EmptyDict, None, None, None, None)
        withCookies == SetCookies(client, [k \in {"ANONYMOUS_USER_EXTERNAL_ID"} |-> name])
    IN  [raised |-> "none",
         client |-> [withCookies EXCEPT !.uid = PyStr(name)]]

\* UserModel.objects.get_or_create(username="test", email=email), then
\* set_password and save: the row for (username, email) holds the password
SaveUser(store, email, password) ==
    {r \in store : ~(r.username = "test" /\ r.email = email)}
        \cup {[username |-> "test", email |-> email, password |-> password]}

\* the id of the row get_or_create returned
UserId(email) == "id:" \o email

\* "Authorize your user here": the seam is left as `assert False`
AuthorizeMutantTokens(email, password) ==
    [raised        |-> "none",
     access_token  |-> "access:" \o email,
     refresh_token |-> "refresh:" \o email,
     organization  |-> "org:" \o email]

AuthorizeUser(email, password) ==
    [raised        |-> "AssertionError",
     access_token  |-> "",
     refresh_token |-> "",
     organization  |-> ""]

\* AuthorizedUserFactory._create, after the user row is saved
AuthorizedCreate(name) ==
    LET email == generate_email(name)
        auth  == AuthorizeUser(email, TestPassword)
        client == AsyncClientBoB(
                    [k \in {"Authorization"} |-> "Bearer " \o auth.access_token],
                    PyStr(email), PyStr(UserId(email)), PyStr(TestPassword),
                    PyStr(auth.organization))
        withCookies == [client EXCEPT !._client.cookies =
                          SimpleCookie([k \in {"REFRESH_TOKEN_KEY"} |-> auth.refresh_token])]
    IN  IF auth.raised # "none"
        THEN [raised |-> auth.raised, client |-> None]
        ELSE [raised |-> "none",
              client |-> [withCookies EXCEPT !.organization_name = PyStr(name)]]

\* self._create(name), dispatched on the instance's class
Create(f, name) ==
    IF FactoryClass(f) = "AuthorizedUserFactory"
    THEN AuthorizedCreate(name) ELSE AnonymousCreate(name)

\* the rows of the user table after self._create(name)
CreateStore(f, name, store) ==
    IF FactoryClass(f) = "AuthorizedUserFactory"
    THEN SaveUser(store, generate_email(name), TestPassword) ELSE store

\* `name not in self._users`, negated
CacheHitMutantNever(f, name) == FALSE

CacheHit(f, name) == name \in DOMAIN users[f]

\* self._users[name] = client
StoreUserMutantShared(f, name, id) ==
    [g \in Factories |-> DictSet(users[g], name, id)]

StoreUser(f, name, id) ==
    [users EXCEPT ![f] = DictSet(@, name, id)]

RECURSIVE SumOver(_, _)
SumOver(fn, S) ==
    IF S = {} THEN 0
    ELSE LET x == CHOOSE y \in S : TRUE IN fn[x] + SumOver(fn, S \ {x})

TotalAttempts == SumOver(attempts, Factories \X Names)

InitFactory ==
    /\ clients = <<>>
    /\ users = NewUsers
    /\ userRecords = {}
    /\ fret = [factory |-> "", name |-> "", outcome |-> "none",
               value |-> 0, miss |-> FALSE]
    /\ firstRet = [p \in Factories \X Names |-> 0]
    /\ attempts = [p \in Factories \X Names |-> 0]

\* AnonymousUserFactory.get_user, inherited by AuthorizedUserFactory
get_user(f, name) ==
    /\ TotalAttempts < MaxCalls
    /\ attempts' = [attempts EXCEPT ![<<f, name>>] = @ + 1]
    /\ IF ~CacheHit(f, name)
       THEN LET made == Create(f, name)
                id   == Len(clients) + 1
            IN  /\ userRecords' = CreateStore(f, name, userRecords)
                /\ IF made.raised # "none"
                   THEN /\ UNCHANGED <<clients, users, firstRet>>
                        /\ fret' = [factory |-> f, name |-> name,
                                    outcome |-> made.raised, value |-> 0,
                                    miss |-> TRUE]
                   ELSE /\ clients' = Append(clients, made.client)
                        /\ users' = StoreUser(f, name, id)
                        /\ fret' = [factory |-> f, name |-> name,
                                    outcome |-> "return",
                                    value |-> users'[f][name], miss |-> TRUE]
                        /\ firstRet' =
                             IF firstRet[<<f, name>>] = 0
                             THEN [firstRet EXCEPT ![<<f, name>>] = fret'.value]
                             ELSE firstRet
       ELSE /\ UNCHANGED <<clients, users, userRecords>>
            /\ fret' = [factory |-> f, name |-> name, outcome |-> "return",
                        value |-> users[f][name], miss |-> FALSE]
            /\ firstRet' =
                 IF firstRet[<<f, name>>] = 0
                 THEN [firstRet EXCEPT ![<<f, name>>] = fret'.value]
                 ELSE firstRet
    /\ UNCHANGED <<rcVars, sdVars, clVars, dbVars>>

-----------------------------------------------------------------------------
(* SharedData *)

\* bound on the assignments made to the SharedData of one session
MaxWrites == 3

Keys == {"x", "y"}

SharedValues == {PyInt(0), PyInt(1), PyStr("token")}

\* the text of the assertion in SharedData.get
MissingKeyMessage(key) == "Key: " \o key \o " is not in shared_data"

\* SharedData.get: the outcome, and the dict as the call leaves it
SharedGetMutantDefault(d, key) ==
    IF key \in DOMAIN d
    THEN [outcome |-> "return", value |-> d[key], message |-> "", dict |-> d]
    ELSE [outcome |-> "return", value |-> None, message |-> "",
          dict |-> DictSet(d, key, None)]

SharedGet(d, key) ==
    IF key \in DOMAIN d
    THEN [outcome |-> "return", value |-> d[key], message |-> "", dict |-> d]
    ELSE [outcome |-> "AssertionError", value |-> None,
          message |-> MissingKeyMessage(key), dict |-> d]

\* the fixture shared_data: SharedData()
InitShared ==
    /\ shared = EmptyDict
    /\ writes = <<>>
    /\ sdOut = [op |-> "none", key |-> "", outcome |-> "none",
                value |-> None, message |-> ""]

\* data[key] = value (dict.__setitem__, inherited)
SharedData_setitem(key, value) ==
    /\ Len(writes) < MaxWrites
    /\ shared' = DictSet(shared, key, value)
    /\ writes' = Append(writes, [key |-> key, value |-> value])
    /\ sdOut' = [op |-> "setitem", key |-> key, outcome |-> "return",
                 value |-> None, message |-> ""]
    /\ UNCHANGED <<facVars, rcVars, clVars, dbVars>>

\* data.get(key)
SharedData_get(key) ==
    LET got == SharedGet(shared, key)
    IN  /\ shared' = got.dict
        /\ sdOut' = [op |-> "get", key |-> key, outcome |-> got.outcome,
                     value |-> got.value, message |-> got.message]
        /\ UNCHANGED writes
        /\ UNCHANGED <<facVars, rcVars, clVars, dbVars>>

-----------------------------------------------------------------------------
(* PaginationDTO and ApiException (your_app_utils) *)

\* PaginationDTO(**data): the declared fields, each with its default
PaginationDTO(data) ==
    [current_page |-> DictGet(data, "current_page"),
     total_pages  |-> DictGet(data, "total_pages"),
     total_items  |-> DictGet(data, "total_items"),
     has_next     |-> IF "has_next" \in DOMAIN data
                      THEN data["has_next"] ELSE PyBool(FALSE),
     has_previous |-> IF "has_previous" \in DOMAIN data
                      THEN data["has_previous"] ELSE PyBool(FALSE)]

\* ApiException._status_code, the class attribute
ClassStatusCode == 400

\* ApiException._api_client_message, the class attribute
ClassApiClientMessage == "Error occurred. Try again."

\* ApiException.__init__
ApiException(message, api_client_message, status_code) ==
    [args |-> IF Truthy(message) THEN message
              ELSE PyStr(ClassApiClientMessage),
     _status_code |-> IF Truthy(status_code) THEN status_code
                      ELSE PyInt(ClassStatusCode),
     _api_client_message |-> IF Truthy(api_client_message)
                             THEN api_client_message
                             ELSE PyStr(ClassApiClientMessage)]

\* the property ApiException.api_client_message
api_client_message(e) == e._api_client_message

\* the property ApiException.status_code
status_code(e) == e._status_code

-----------------------------------------------------------------------------
(* ResponseChecker *)

\* response.content and response.json(): no content, a JSON document, or
\* bytes that are no JSON
NoContent == [kind |-> "empty", doc |-> EmptyDict]
JsonContent(doc) == [kind |-> "json", doc |-> doc]
Malformed == [kind |-> "malformed", doc |-> EmptyDict]

Response(status, content) == [status_code |-> status, content |-> content]

\* ResponseChecker.__init__ with _process_response
ResponseChecker(response) ==
    IF response.content.kind = "malformed"
    THEN [raised |-> "JSONDecodeError", _response |-> response,
          _json |-> EmptyDict, _status |-> 0]
    ELSE [raised |-> "none",
          _response |-> response,
          _json |-> IF response.content.kind = "empty"
                    THEN EmptyDict ELSE response.content.doc,
          _status |-> response.status_code]

Returned(value) == [outcome |-> "return", value |-> value, message |-> ""]
Raised(error, message) == [outcome |-> error, value |-> None, message |-> message]

\* ResponseChecker.key_value
KeyValueMutantPresent(checker, key) ==
    IF key \in DOMAIN checker._json
    THEN Returned(checker._json[key])
    ELSE Raised("AssertionError", "Key " \o key \o " not found in response data.")

KeyValue(checker, key) ==
    LET value == DictGet(checker._json, key)
    IN  IF Truthy(value)
        THEN Returned(value)
        ELSE Raised("AssertionError", "Key " \o key \o " not found in response data.")

\* ResponseChecker.paginated
Paginated(checker, min_number_of_records) ==
    LET results == DictGet(checker._json, "results")
        pagination_data == DictGet(checker._json, "pagination")
    IN  IF results.t \notin {"list", "str", "dict"}
        THEN Raised("TypeError", "object of type has no len()")
        ELSE LET results_number ==
                    IF results.t = "dict" THEN Cardinality(DOMAIN results.v)
                    ELSE Len(results.v)
             IN  IF ~(results_number > 0)
                 THEN Raised("AssertionError",
                             "Results number is " \o ToString(results_number)
                             \o ", but should be at least "
                             \o ToString(min_number_of_records))
                 ELSE IF results = None
                 THEN Raised("AssertionError", "No results data")
                 ELSE IF pagination_data = None
                 THEN Raised("AssertionError", "No pagination data")
                 ELSE Returned(PyTuple(<<results, PaginationDTO(pagination_data.v)>>))

\* ResponseChecker.check_exception
CheckExceptionMutantStatusOnly(checker, api_exception) ==
    IF PyInt(checker._response.status_code) # api_exception._status_code
    THEN Raised("AssertionError", "Status is: but should be:")
    ELSE KeyValue(checker, "message")

CheckException(checker, api_exception) ==
    LET exception_status_code == api_exception._status_code
        error_message == api_exception._api_client_message
        message == KeyValue(checker, "message")
    IN  IF PyInt(checker._response.status_code) # exception_status_code
        THEN Raised("AssertionError",
                    "Status is: " \o ToString(checker._status)
                    \o " but should be: " \o ToString(exception_status_code.v))
        ELSE IF message.outcome # "return"
        THEN message
        ELSE IF error_message # message.value
        THEN Raised("AssertionError", "Message to client is: but should be:")
        ELSE Returned(None)

\* ---- the responses put under check

\* a field a body does not carry
Absent == [t |-> "absent", v |-> 0]

FullPagination ==
    [k \in {"current_page", "total_pages", "total_items", "has_next", "has_previous"} |->
        CASE k = "current_page" -> PyInt(1)
          [] k = "total_pages"  -> PyInt(1)
          [] k = "total_items"  -> PyInt(2)
          [] k = "has_next"     -> PyBool(FALSE)
          [] k = "has_previous" -> PyBool(FALSE)]

PartialPagination == [k \in {"current_page"} |-> PyInt(3)]

AValues ==
    {Absent, PyInt(0), PyInt(1), PyBool(FALSE), PyStr(""), PyList(<<>>)}

MessageValues ==
    {Absent, PyStr(""), PyStr(ClassApiClientMessage), PyStr("Not found."),
     PyInt(404)}

ResultsValues == {Absent, PyList(<<>>), PyList(<<PyInt(1), PyInt(2)>>)}

PaginationValues ==
    {Absent, PyDict(FullPagination), PyDict(PartialPagination)}

\* the JSON object with the fields that are not Absent
Body(a, message, results, pagination) ==
    LET field == [k \in {"a", "message", "results", "pagination"} |->
                    CASE k = "a" -> a
                      [] k = "message" -> message
                      [] k = "results" -> results
                      [] k = "pagination" -> pagination]
    IN  [k \in {x \in DOMAIN field : field[x] # Absent} |-> field[k]]

Bodies ==
    {Body(a, m, r, p) : a \in AValues, m \in MessageValues,
                        r \in ResultsValues, p \in PaginationValues}

Statuses == {200, 400, 404}

ResponsesUnderCheck ==
    {Response(st, c) : st \in Statuses,
                       c \in {JsonContent(b) : b \in Bodies}
                             \cup {NoContent, Malformed}}

NoResponse == Response(0, NoContent)
NoChecker == [raised |-> "unbuilt", _response |-> NoResponse,
              _json |-> EmptyDict, _status |-> 0]
NoException == [args |-> None, _status_code |-> None,
                _api_client_message |-> None]
NoOutcome == [op |-> "none", arg |-> None, outcome |-> "none",
              value |-> None, message |-> ""]

Outcome(op, arg, result) ==
    [op |-> op, arg |-> arg, outcome |-> result.outcome,
     value |-> result.value, message |-> result.message]

IdleChecker ==
    /\ resp = NoResponse
    /\ rc = NoChecker
    /\ exc = NoException
    /\ out = NoOutcome

InitChecker ==
    /\ resp \in ResponsesUnderCheck
    /\ rc = NoChecker
    /\ exc = NoException
    /\ out = NoOutcome

\* ResponseChecker(resp)
Construct ==
    /\ rc = NoChecker
    /\ rc' = ResponseChecker(resp)
    /\ out' = [NoOutcome EXCEPT !.op = "__init__", !.outcome = rc'.raised]
    /\ UNCHANGED <<resp, exc>>
    /\ UNCHANGED <<facVars, sdVars, clVars, dbVars>>

\* rc.key_value(key)
key_value(key) ==
    /\ rc.raised = "none"
    /\ out' = Outcome("key_value", PyStr(key), KeyValue(rc, key))
    /\ exc' = NoException
    /\ UNCHANGED <<resp, rc>>
    /\ UNCHANGED <<facVars, sdVars, clVars, dbVars>>

\* rc.paginated(min_number_of_records)
paginated(min_number_of_records) ==
    /\ rc.raised = "none"
    /\ out' = Outcome("paginated", PyInt(min_number_of_records),
                      Paginated(rc, min_number_of_records))
    /\ exc' = NoException
    /\ UNCHANGED <<resp, rc>>
    /\ UNCHANGED <<facVars, sdVars, clVars, dbVars>>

\* rc.check_exception(ApiException(message, api_client_message, status_code))
check_exception(message, client_message, status) ==
    /\ rc.raised = "none"
    /\ exc' = ApiException(message, client_message, status)
    /\ out' = Outcome("check_exception", None, CheckException(rc, exc'))
    /\ UNCHANGED <<resp, rc>>
    /\ UNCHANGED <<facVars, sdVars, clVars, dbVars>>

ExceptionMessages == {None, PyStr("boom")}
ExceptionClientMessages == {None, PyStr(""), PyStr("Not found.")}
ExceptionStatuses == {None, PyInt(0), PyInt(404)}
MinRecords == {0, 3}

NextChecker ==
    \/ Construct
    \/ \E key \in {"a", "b", "message"} : key_value(key)
    \/ \E m \in MinRecords : paginated(m)
    \/ \E m \in ExceptionMessages, c \in ExceptionClientMessages,
          st \in ExceptionStatuses : check_exception(m, c, st)

-----------------------------------------------------------------------------
(* AsyncClientBoB: the verbs *)

\* bound on the verb calls made on the wrapper
MaxVerbCalls == 2

\* bound on the calls of the headers setter
MaxSetterCalls == 2

HeaderValues ==
    {EmptyDict,
     [k \in {"Authorization"} |-> "Bearer a"],
     [k \in {"Authorization"} |-> "Bearer b"]}

\* the headers the factories construct an anonymous wrapper with
ConstructorHeaders == {EmptyDict}

Paths == {"/items"}

\* what the application under test may answer
ServerResponses ==
    {Response(200, JsonContent([k \in {"a"} |-> PyInt(1)])),
     Response(500, Malformed)}

\* headers=self._headers, as each verb passes it
VerbHeadersMutantInitial(client) == installed[1]

VerbHeaders(client) == client._headers

\* the calls a verb makes on self._client
VerbRequests(client, call, verb, path, data, content_type) ==
    << [call |-> call, verb |-> verb, path |-> path, data |-> data,
        content_type |-> content_type, headers |-> VerbHeaders(client),
        done |-> FALSE, response |-> NoResponse] >>

IdleClient ==
    /\ bob = AsyncClientBoB(EmptyDict, None, None, None, None)
    /\ exchanges = <<>>
    /\ calls = <<>>
    /\ checkers = <<>>
    /\ installed = <<EmptyDict>>

\* AsyncClientBoB(headers)
InitClient ==
    /\ \E h \in ConstructorHeaders :
          /\ bob = AsyncClientBoB(h, None, None, None, None)
          /\ installed = <<h>>
    /\ exchanges = <<>>
    /\ calls = <<>>
    /\ checkers = <<>>

\* bob.headers = headers
headers_setter(headers) ==
    /\ Len(installed) <= MaxSetterCalls
    /\ bob' = SetHeaders(bob, headers)
    /\ installed' = Append(installed, headers)
    /\ UNCHANGED <<exchanges, calls, checkers>>
    /\ UNCHANGED <<facVars, rcVars, sdVars, dbVars>>

\* a verb up to its await: the request goes to self._client
Verb(verb, path, data, content_type) ==
    /\ Len(calls) < MaxVerbCalls
    /\ exchanges' = exchanges \o
          VerbRequests(bob, Len(calls) + 1, verb, path, data, content_type)
    /\ calls' = Append(calls, [verb |-> verb, path |-> path,
                               at |-> Len(installed), pc |-> "awaiting",
                               checker |-> 0])
    /\ UNCHANGED <<bob, checkers, installed>>
    /\ UNCHANGED <<facVars, rcVars, sdVars, dbVars>>

get(path) == Verb("get", path, "", "")

post(path, data, content_type) == Verb("post", path, data, content_type)

patch(path, data, content_type) == Verb("patch", path, data, content_type)

delete(path) == Verb("delete", path, "", "")

\* a verb from its await on: the response arrives, ResponseChecker(response)
\* is built and returned
Resume(c, response) ==
    /\ c \in 1..Len(calls)
    /\ calls[c].pc = "awaiting"
    /\ LET e == CHOOSE i \in 1..Len(exchanges) :
                    /\ exchanges[i].call = c
                    /\ \A j \in 1..(i - 1) : exchanges[j].call # c
           response_checker == ResponseChecker(response)
       IN  /\ exchanges' = [exchanges EXCEPT ![e].done = TRUE,
                                             ![e].response = response]
           /\ IF response_checker.raised # "none"
              THEN /\ calls' = [calls EXCEPT ![c].pc = response_checker.raised]
                   /\ UNCHANGED checkers
              ELSE /\ checkers' = Append(checkers, response_checker)
                   /\ calls' = [calls EXCEPT ![c].pc = "returned",
                                             ![c].checker = Len(checkers) + 1]
    /\ UNCHANGED <<bob, installed>>
    /\ UNCHANGED <<facVars, rcVars, sdVars, dbVars>>

NextClient ==
    \/ \E h \in HeaderValues : headers_setter(h)
    \/ \E p \in Paths : get(p)
    \/ \E p \in Paths : post(p, "{}", "application/json")
    \/ \E p \in Paths : patch(p, "{}", "application/json")
    \/ \E p \in Paths : delete(p)
    \/ \E c \in 1..Len(calls), r \in ServerResponses : Resume(c, r)

-----------------------------------------------------------------------------
(* Database fixtures, run by the test runner *)

\* bound on the test functions of one session
MaxTests == 3

\* bound on the database queries of one test function
MaxQueries == 1

\* @pytest.fixture(scope=...) of each fixture
FixtureScopeMutantFunction(fixture) == "function"

FixtureScope(fixture) ==
    IF fixture = "use_persistent_db" THEN "function" ELSE "session"

\* django_db_blocker.unblock(), entered: database access is allowed and the
\* state before is saved
Unblock(b) == [allowed |-> TRUE, saved |-> Append(b.saved, b.allowed)]

\* leaving the `with`: the saved state is restored
Restore(b) ==
    [allowed |-> b.saved[Len(b.saved)],
     saved   |-> SubSeq(b.saved, 1, Len(b.saved) - 1)]

\* a call that reaches the database: refused while access is blocked
DbCall(b, log, what) ==
    Append(log, IF b.allowed THEN what ELSE "refused:" \o what)

\* the body of django_db_setup
SqliteInMemory ==
    [ENGINE |-> "django.db.backends.sqlite3", NAME |-> ":memory:"]

\* setup_persistent_db up to its yield
CreatePersistentDb(b, log) ==
    LET inside == Unblock(b)
    IN  [log |-> DbCall(inside, log, "create_test_db"),
         blocker |-> Restore(inside)]

\* setup_persistent_db after its yield
DestroyPersistentDb(b, log) ==
    LET inside == Unblock(b)
    IN  [log |-> DbCall(inside, log, "destroy_test_db"),
         blocker |-> Restore(inside)]

NoTest == [pc |-> "idle", uses |-> FALSE, queries |-> 0]

InitSession ==
    /\ dbLog = <<>>
    /\ blocker = [allowed |-> FALSE, saved |-> <<>>]
    /\ dbSettings = [ENGINE |-> "", NAME |-> ""]
    /\ fixtures = [f \in {"django_db_setup", "setup_persistent_db",
                          "use_persistent_db"} |-> "unset"]
    /\ test = NoTest
    /\ session = [pc |-> "running", ran |-> 0]

\* the runner picks the next test function; `uses` tells whether it asks
\* for use_persistent_db
StartTest(uses) ==
    /\ session.pc = "running"
    /\ session.ran < MaxTests
    /\ test.pc = "idle"
    /\ test' = [pc |-> "setup", uses |-> uses, queries |-> 0]
    /\ fixtures' = [fixtures EXCEPT !["use_persistent_db"] = "unset"]
    /\ UNCHANGED <<dbLog, blocker, dbSettings, session>>
    /\ UNCHANGED <<facVars, rcVars, sdVars, clVars>>

\* django_db_setup, on its first request
django_db_setup ==
    /\ test.pc = "setup"
    /\ test.uses
    /\ fixtures["django_db_setup"] = "unset"
    /\ dbSettings' = SqliteInMemory
    /\ fixtures' = [fixtures EXCEPT !["django_db_setup"] = "active"]
    /\ UNCHANGED <<dbLog, blocker, test, session>>
    /\ UNCHANGED <<facVars, rcVars, sdVars, clVars>>

\* setup_persistent_db, set up when requested and not in the fixture cache
setup_persistent_db ==
    /\ test.pc = "setup"
    /\ test.uses
    /\ fixtures["django_db_setup"] = "active"
    /\ fixtures["setup_persistent_db"] # "active"
    /\ LET made == CreatePersistentDb(blocker, dbLog)
       IN  /\ dbLog' = made.log
           /\ blocker' = made.blocker
    /\ fixtures' = [fixtures EXCEPT !["setup_persistent_db"] = "active"]
    /\ UNCHANGED <<dbSettings, test, session>>
    /\ UNCHANGED <<facVars, rcVars, sdVars, clVars>>

\* use_persistent_db up to its yield: the test function is let in
use_persistent_db ==
    /\ test.pc = "setup"
    /\ test.uses
    /\ fixtures["setup_persistent_db"] = "active"
    /\ fixtures["use_persistent_db"] = "unset"
    /\ blocker' = Unblock(blocker)
    /\ dbLog' = Append(dbLog, "enter")
    /\ fixtures' = [fixtures EXCEPT !["use_persistent_db"] = "active"]
    /\ test' = [test EXCEPT !.pc = "call"]
    /\ UNCHANGED <<dbSettings, session>>
    /\ UNCHANGED <<facVars, rcVars, sdVars, clVars>>

\* a test function that asks for no database fixture
PlainTest ==
    /\ test.pc = "setup"
    /\ ~test.uses
    /\ test' = [test EXCEPT !.pc = "call"]
    /\ UNCHANGED <<dbLog, blocker, dbSettings, fixtures, session>>
    /\ UNCHANGED <<facVars, rcVars, sdVars, clVars>>

\* the test function touches the database
Query ==
    /\ test.pc = "call"
    /\ test.queries < MaxQueries
    /\ dbLog' = DbCall(blocker, dbLog, "query")
    /\ test' = [test EXCEPT !.queries = @ + 1]
    /\ UNCHANGED <<blocker, dbSettings, fixtures, session>>
    /\ UNCHANGED <<facVars, rcVars, sdVars, clVars>>

\* the test function returns
EndCall ==
    /\ test.pc = "call"
    /\ test' = [test EXCEPT !.pc = "teardown"]
    /\ UNCHANGED <<dbLog, blocker, dbSettings, fixtures, session>>
    /\ UNCHANGED <<facVars, rcVars, sdVars, clVars>>

\* use_persistent_db after its yield
leave_persistent_db ==
    /\ test.pc = "teardown"
    /\ fixtures["use_persistent_db"] = "active"
    /\ blocker' = Restore(blocker)
    /\ dbLog' = Append(dbLog, "leave")
    /\ fixtures' = [fixtures EXCEPT !["use_persistent_db"] = "done"]
    /\ UNCHANGED <<dbSettings, test, session>>
    /\ UNCHANGED <<facVars, rcVars, sdVars, clVars>>

\* setup_persistent_db after its yield, run when its scope ends
teardown_persistent_db ==
    /\ fixtures["setup_persistent_db"] = "active"
    /\ \/ /\ FixtureScope("setup_persistent_db") = "session"
          /\ session.pc = "finalizing"
       \/ /\ FixtureScope("setup_persistent_db") = "function"
          /\ test.pc = "teardown"
          /\ fixtures["use_persistent_db"] # "active"
    /\ LET gone == DestroyPersistentDb(blocker, dbLog)
       IN  /\ dbLog' = gone.log
           /\ blocker' = gone.blocker
    /\ fixtures' = [fixtures EXCEPT !["setup_persistent_db"] = "done"]
    /\ UNCHANGED <<dbSettings, test, session>>
    /\ UNCHANGED <<facVars, rcVars, sdVars, clVars>>

\* the test function's teardown is over
EndTest ==
    /\ test.pc = "teardown"
    /\ fixtures["use_persistent_db"] # "active"
    /\ \/ FixtureScope("setup_persistent_db") = "session"
       \/ fixtures["setup_persistent_db"] # "active"
    /\ test' = NoTest
    /\ session' = [session EXCEPT !.ran = @ + 1]
    /\ UNCHANGED <<dbLog, blocker, dbSettings, fixtures>>
    /\ UNCHANGED <<facVars, rcVars, sdVars, clVars>>

\* no test function is left: the session-scoped fixtures are finalized
EndSession ==
    /\ session.pc = "running"
    /\ test.pc = "idle"
    /\ session' = [session EXCEPT !.pc = "finalizing"]
    /\ UNCHANGED <<dbLog, blocker, dbSettings, fixtures, test>>
    /\ UNCHANGED <<facVars, rcVars, sdVars, clVars>>

\* the session is over
Finish ==
    /\ session.pc = "finalizing"
    /\ fixtures["setup_persistent_db"] # "active"
    /\ session' = [session EXCEPT !.pc = "finished"]
    /\ UNCHANGED <<dbLog, blocker, dbSettings, fixtures, test>>
    /\ UNCHANGED <<facVars, rcVars, sdVars, clVars>>

NextSession ==
    \/ \E uses \in BOOLEAN : StartTest(uses)
    \/ django_db_setup
    \/ setup_persistent_db
    \/ use_persistent_db
    \/ PlainTest
    \/ Query
    \/ EndCall
    \/ leave_persistent_db
    \/ teardown_persistent_db
    \/ EndTest
    \/ EndSession
    \/ Finish

-----------------------------------------------------------------------------
(* Specifications *)

NextFactory == \E f \in Factories, name \in Names : get_user(f, name)

NextShared ==
    \/ \E k \in Keys, v \in SharedValues : SharedData_setitem(k, v)
    \/ \E k \in Keys : SharedData_get(k)

\* the user factories of one session
Init == InitFactory /\ IdleChecker /\ InitShared /\ IdleClient /\ InitSession
Next == NextFactory
Spec == Init /\ [][Next]_vars

\* one response under a ResponseChecker
InitUnderCheck ==
    InitFactory /\ InitChecker /\ InitShared /\ IdleClient /\ InitSession

SpecChecker == InitUnderCheck /\ [][NextChecker]_vars

\* the SharedData of one session
SpecShared == Init /\ [][NextShared]_vars

\* one client wrapper, its setter and its verbs
InitWrapper ==
    InitFactory /\ IdleChecker /\ InitShared /\ InitClient /\ InitSession

SpecClient == InitWrapper /\ [][NextClient]_vars

\* one test session over the database fixtures
SpecSession == Init /\ [][NextSession]_vars

-----------------------------------------------------------------------------
(* Properties of the user factories, under Spec *)

CachedPairs == {p \in Factories \X Names : p[2] \in DOMAIN users[p[1]]}

\* C1: on one factory instance, every get_user(N) that returns yields the
\* client the first returning get_user(N) yielded, and the factory creates
\* one client per cached name and no more.
C1_SameWrapperEveryCall ==
    /\ fret.outcome = "return" =>
          /\ fret.value \in 1..Len(clients)
          /\ fret.value = firstRet[<<fret.factory, fret.name>>]
    /\ Len(clients) = Cardinality(CachedPairs)

C1_Witness ==
    /\ fret.outcome = "return"
    /\ ~fret.miss
    /\ attempts[<<fret.factory, fret.name>>] >= 3
    /\ Len(clients) >= 2

\* C6: a get_user that misses on an AnonymousUserFactory returns a client
\* with empty headers, the one cookie ANONYMOUS_USER_EXTERNAL_ID = name,
\* uid = name, and every other identity field unset.
C6_AnonymousClientShape ==
    (/\ fret.outcome = "return"
     /\ fret.miss
     /\ FactoryClass(fret.factory) = "AnonymousUserFactory") =>
        LET w == clients[fret.value]
        IN  /\ Headers(w) = EmptyDict
            /\ DOMAIN Cookies(w) = {"ANONYMOUS_USER_EXTERNAL_ID"}
            /\ Cookies(w)["ANONYMOUS_USER_EXTERNAL_ID"].value = fret.name
            /\ w.uid = PyStr(fret.name)
            /\ w.email = None
            /\ w.password = None
            /\ w.organization_id = None
            /\ w.organization_name = None

C6_Witness ==
    /\ fret.outcome = "return"
    /\ fret.miss
    /\ FactoryClass(fret.factory) = "AnonymousUserFactory"
    /\ fret.name = "store_test"

\* C7: every get_user on an AuthorizedUserFactory fails with the assertion
\* of the credential seam and returns no client, and the factory's cache
\* stays empty, so a repeated call for the same name fails again.
C7_AuthorizedAlwaysFails ==
    /\ \A f \in Factories :
          FactoryClass(f) = "AuthorizedUserFactory" => DOMAIN users[f] = {}
    /\ (/\ fret.outcome # "none"
        /\ FactoryClass(fret.factory) = "AuthorizedUserFactory") =>
          /\ fret.outcome = "AssertionError"
          /\ fret.value = 0
          /\ fret.miss

C7_Witness ==
    /\ fret.outcome = "AssertionError"
    /\ FactoryClass(fret.factory) = "AuthorizedUserFactory"
    /\ attempts[<<fret.factory, fret.name>>] >= 2

\* C10: a get_user call never removes or replaces a mapping of any cache,
\* leaves every factory instance but its own untouched, and distinct names
\* of one factory map to distinct clients.
C10_CacheGrowsPrivately ==
    [][ /\ \A f \in Factories : \A n \in DOMAIN users[f] :
              /\ n \in DOMAIN users'[f]
              /\ users'[f][n] = users[f][n]
        /\ \A f \in Factories : f # fret'.factory => users'[f] = users[f]
        /\ \A f \in Factories : \A n, m \in DOMAIN users'[f] :
              n # m => users'[f][n] # users'[f][m] ]_vars

C10_Witness ==
    /\ Cardinality(DOMAIN users["anonymous_user_factory"]) >= 2
    /\ DOMAIN users["adhoc_factory"] # {}
    /\ DOMAIN users["adhoc_factory"] # DOMAIN users["anonymous_user_factory"]
    /\ ~fret.miss

-----------------------------------------------------------------------------
(* Properties of the response checker, under SpecChecker *)

\* the JSON object the response carries
BodyOfResp ==
    IF resp.content.kind = "json" THEN resp.content.doc ELSE EmptyDict

\* C2: key_value(key) returns the body's value for key when the key is
\* present with a truthy value, fails with an assertion failure when the
\* key is absent or its value is falsy, and never returns a falsy value.
C2_KeyValueTruthyOnly ==
    out.op = "key_value" =>
        LET key == out.arg.v
            present == key \in DOMAIN BodyOfResp /\ Truthy(BodyOfResp[key])
        IN  /\ present => out.outcome = "return" /\ out.value = BodyOfResp[key]
            /\ ~present => out.outcome = "AssertionError"
            /\ out.outcome = "return" => Truthy(out.value)

C2_Witness ==
    /\ out.op = "key_value"
    /\ out.arg.v \in DOMAIN BodyOfResp
    /\ BodyOfResp[out.arg.v] = PyInt(0)
    /\ out.outcome = "AssertionError"

\* C3: paginated fails with an assertion failure when `results` is an empty
\* list, when the body has no `results` key and when it has no `pagination`
\* key; with non-empty `results` and `pagination` present it returns
\* (results, PaginationDTO of the pagination mapping), whatever
\* min_number_of_records is.
C3_PaginatedAsClaimed ==
    out.op = "paginated" =>
        LET hasResults == "results" \in DOMAIN BodyOfResp
            hasPagination == "pagination" \in DOMAIN BodyOfResp
            empty == hasResults /\ ~Truthy(BodyOfResp["results"])
        IN  /\ (~hasResults \/ empty \/ ~hasPagination) =>
                  out.outcome = "AssertionError"
            /\ (hasResults /\ ~empty /\ hasPagination) =>
                  /\ out.outcome = "return"
                  /\ out.value =
                       PyTuple(<<BodyOfResp["results"],
                                 PaginationDTO(BodyOfResp["pagination"].v)>>)

\* C5: check_exception(expected) passes exactly when the response's status
\* code equals expected.status_code and the body's `message` equals
\* expected.api_client_message, and fails with an assertion failure
\* otherwise.
C5_CheckExceptionExact ==
    out.op = "check_exception" =>
        LET matches ==
                /\ PyInt(resp.status_code) = status_code(exc)
                /\ "message" \in DOMAIN BodyOfResp
                /\ BodyOfResp["message"] = api_client_message(exc)
        IN  /\ matches => out.outcome = "return"
            /\ ~matches => out.outcome = "AssertionError"

C5_Witness ==
    /\ out.op = "check_exception"
    /\ out.outcome = "return"
    /\ status_code(exc) = PyInt(404)
    /\ api_client_message(exc) = PyStr("Not found.")

-----------------------------------------------------------------------------
(* Properties of SharedData, under SpecShared *)

WritesTo(k) == {i \in 1..Len(writes) : writes[i].key = k}

LastAssigned(k) ==
    writes[CHOOSE i \in WritesTo(k) : \A j \in WritesTo(k) : j <= i].value

\* C4: get(k) returns the value most recently assigned to k when k has been
\* assigned, and fails with an assertion failure whose message names k when
\* it has not; the mapping holds what the assignments put there, whatever
\* gets were made in between.
C4_GetFailsFast ==
    /\ DOMAIN shared = {k \in Keys : WritesTo(k) # {}}
    /\ \A k \in DOMAIN shared : shared[k] = LastAssigned(k)
    /\ sdOut.op = "get" =>
          IF WritesTo(sdOut.key) # {}
          THEN /\ sdOut.outcome = "return"
               /\ sdOut.value = LastAssigned(sdOut.key)
          ELSE /\ sdOut.outcome = "AssertionError"
               /\ sdOut.message =
                    "Key: " \o sdOut.key \o " is not in shared_data"

C4_Witness ==
    /\ sdOut.op = "get"
    /\ sdOut.outcome = "AssertionError"
    /\ Len(writes) >= 2
    /\ writes[1].value # writes[2].value

-----------------------------------------------------------------------------
(* Properties of the client wrapper, under SpecClient *)

ExchangesOf(c) == {i \in 1..Len(exchanges) : exchanges[i].call = c}

\* C8: each verb call hands the underlying client exactly one request, with
\* the headers the wrapper held when the call was made (the latest value
\* installed by then), and a call that returns yields a ResponseChecker of
\* its own over that exchange's response.
C8_VerbSendsCurrentHeaders ==
    /\ Len(exchanges) = Len(calls)
    /\ \A c \in 1..Len(calls) :
          /\ Cardinality(ExchangesOf(c)) = 1
          /\ \A i \in ExchangesOf(c) :
                /\ exchanges[i].verb = calls[c].verb
                /\ exchanges[i].headers = installed[calls[c].at]
                /\ calls[c].pc = "returned" =>
                      /\ calls[c].checker \in 1..Len(checkers)
                      /\ checkers[calls[c].checker]._response =
                            exchanges[i].response
          /\ \A d \in 1..Len(calls) :
                (c # d /\ calls[c].pc = "returned" /\ calls[d].pc = "returned")
                    => calls[c].checker # calls[d].checker

C8_Witness ==
    \E c, d \in 1..Len(calls) :
        /\ calls[c].at = 1
        /\ calls[d].at = 3
        /\ installed[3] # installed[2]
        /\ installed[2] # installed[1]
        /\ calls[c].pc = "returned"
        /\ calls[d].pc = "returned"
        /\ calls[d].checker < calls[c].checker

-----------------------------------------------------------------------------
(* Properties of the database fixtures, under SpecSession *)

Events(what) == {i \in 1..Len(dbLog) : dbLog[i] = what}

\* C9: in a session the database is created at most once and destroyed at
\* most once; it is created before any test function is let in through
\* use_persistent_db and destroyed after the last one has left; a session
\* that let test functions in ends with one creation and one destruction,
\* however many test functions entered and left.
C9_DbOncePerSession ==
    /\ Cardinality(Events("create_test_db")) <= 1
    /\ Cardinality(Events("destroy_test_db")) <= 1
    /\ \A i \in Events("enter") \cup Events("leave") :
          /\ \E j \in Events("create_test_db") : j < i
          /\ \A j \in Events("destroy_test_db") : i < j
    /\ Cardinality(Events("leave")) <= Cardinality(Events("enter"))
    /\ (test.pc = "call" /\ test.uses) =>
          /\ blocker.allowed
          /\ Events("create_test_db") # {}
          /\ Events("destroy_test_db") = {}
    /\ (session.pc = "finished" /\ Events("enter") # {}) =>
          /\ Cardinality(Events("create_test_db")) = 1
          /\ Cardinality(Events("destroy_test_db")) = 1
          /\ Cardinality(Events("leave")) = Cardinality(Events("enter"))
    /\ \A i \in 1..Len(dbLog) :
          dbLog[i] \notin {"refused:create_test_db", "refused:destroy_test_db"}

C9_Witness ==
    /\ session.pc = "finished"
    /\ Cardinality(Events("enter")) >= 2
    /\ Cardinality(Events("create_test_db")) = 1
    /\ Cardinality(Events("destroy_test_db")) = 1
    /\ Events("query") # {}

=============================================================================
